---- MODULE Spec2Model ----
(***************************************************************************)
(* kuma-repoter: the measurement-and-reporting pipeline.                   *)
(*                                                                         *)
(* Three entry points start the Scheduler:                                 *)
(*   "cli0"  the stand-alone command-line daemon (its own copy of          *)
(*           reportWithRetry / getPingTime / sendReport),                  *)
(*   "cli5"  the command-line main that calls the library Daemon,          *)
(*   "lib"   the library entry point Daemon(ctx, cfg) called directly.     *)
(* Every reporting cycle is a goroutine running reportWithRetry; it is     *)
(* modelled as a small program counter machine, one step per blocking      *)
(* call (lookup, probe, HTTP GET, retry sleep).                            *)
(***************************************************************************)
EXTENDS Integers, Sequences, FiniteSets, TLC

\* ---------------------------------------------------------------- bounds
MaxRetriesBound == 2    \* cfg.MaxRetries ranges over 0..MaxRetriesBound
MaxCycles == 2          \* reporting cycles launched in one run
MaxAddrs == 2           \* length of a resolver answer
MaxHost == 2            \* distinct hosts behind the resolver's addresses

\* ------------------------------------------------------- program constants
StatusOK == 200         \* http.StatusOK

\* --------------------------------------------------------------- data
Entries == {"cli0", "cli5", "lib"}

\* Which copy of reportWithRetry/getPingTime an entry point runs.
Impl(e) == IF e = "cli0" THEN "cli" ELSE "lib"

\* A net.IP as the resolver returns it: 4-byte IPv4, 16-byte IPv4-mapped,
\* or 16-byte IPv6.
IPForms == {"b4", "b16mapped", "b16"}
IPs == [form : IPForms, host : 1..MaxHost]

\* ip.To4() != nil
To4(ip) == ip.form # "b16"

\* ip.String(): both IPv4 forms print as the same dotted quad.
IPString(ip) == [fam |-> IF To4(ip) THEN "4" ELSE "6", host |-> ip.host]

SeqsUpTo(S, n) == UNION {[1..k -> S] : k \in 0..n}

\* What net.LookupIP can answer on success.
LookupAnswers == SeqsUpTo(IPs, MaxAddrs)

\* The outcomes of net.LookupIP: an error, or an answer.
LookupFailure == [ok |-> FALSE, ips |-> <<>>]
LookupOutcomes == {LookupFailure} \cup [ok : {TRUE}, ips : LookupAnswers]

\* Measured round trips (milliseconds).
Latencies == {7, 12}

\* The outcomes of one probe (pingWithSystem / pingWithGoPing): an error,
\* or an average round trip.
ProbeFailure == [ok |-> FALSE, rtt |-> 0]
ProbeOutcomes == {ProbeFailure} \cup [ok : {TRUE}, rtt : Latencies]

\* HTTP GET outcomes: transport failure before or after the request reached
\* the endpoint, or a response with a status code.
HTTPStatuses == {StatusOK, 204, 500}
HTTPOutcomes == [kind : {"refused", "timeout"}, status : {0}]
                  \cup [kind : {"response"}, status : HTTPStatuses]

\* cfg.ReportURL: "" (missing), a well-formed URL, a string url.Parse rejects.
ReportURLs == {"", "http://kuma/push", ":bad"}

Configs == [ReportURL : ReportURLs, MaxRetries : 0..MaxRetriesBound,
            UseIPv4 : BOOLEAN, UseIPv6 : BOOLEAN]

\* The network of a run: what lookups, probes and HTTP requests can come
\* back with.  "any" leaves everything open; the others are the steady
\* conditions of a deployment.
OneAddress == [ok |-> TRUE, ips |-> <<[form |-> "b4", host |-> 1]>>]
Reachable == [ok |-> TRUE, rtt |-> 7]
Accepted == [kind |-> "response", status |-> StatusOK]
Rejected == [kind |-> "response", status |-> 500]
SteadyWorlds == {"healthy", "dnsDown", "hostDown", "endpointDown"}

DNSPool(w) ==
  CASE w = "any" -> LookupOutcomes
    [] w = "dnsDown" -> {LookupFailure}
    [] OTHER -> {OneAddress}
ProbePool(w) ==
  CASE w = "any" -> ProbeOutcomes
    [] w = "hostDown" -> {ProbeFailure}
    [] OTHER -> {Reachable}
HTTPPool(w) ==
  CASE w = "any" -> HTTPOutcomes
    [] w = "endpointDown" -> {Rejected}
    [] OTHER -> {Accepted}

\* ------------------------------------------------------------- errors
\* An error value: the chain of messages from the outermost wrapper to the
\* cause, the attempt number formatted into it (0: none) and the candidate
\* whose probe failure it carries (0: none).
NilErr == [msg |-> <<>>, attempt |-> 0, cand |-> 0]
NewErr(s) == [msg |-> <<s>>, attempt |-> 0, cand |-> 0]
Wrap(s, e) == [e EXCEPT !.msg = <<s>> \o @]
WrapAttempt(s, n, e) == [e EXCEPT !.msg = <<s>> \o @, !.attempt = n]
ProbeErr(k) == [msg |-> <<"probe failed">>, attempt |-> 0, cand |-> k]
\* ctx.Err() after cancellation
CtxErr == NewErr("context canceled")

\* url.Parse(cfg.ReportURL) succeeds (the empty string parses).
URLParses(u) == u # ":bad"

VARIABLES
  entry,        \* the entry point of this run
  cfg,          \* the configuration (immutable)
  ctxDone,      \* the cancellation signal: ctx.Done() is closed
  schedPc,      \* "start" | "loop" | "stopped" | "panicked"
  tickPending,  \* a tick is buffered in ticker.C
  launched,     \* goroutines started for reporting cycles
  cyc,          \* cyc[c]: the state of reporting cycle c
  world,        \* the network of this run (immutable)
  Logger,       \* the package variable Logger: the sink log calls go to
  cfgLogger,    \* cfg.Logger: "nil" or the caller's sink (immutable)
  sendIn,       \* arguments and HTTP reply of a sendReport call on its own
  sendOut,      \* what that call issued and returned
  parseIn,      \* the output handed to parseSystemPingOutput on its own
  parseOut,     \* what it returned
  resolveIn,    \* resolveIP checked alone: its arguments
  resolveOut    \* resolveIP checked alone: its result

vars == <<entry, cfg, ctxDone, schedPc, tickPending, launched, cyc, world,
          Logger, cfgLogger, sendIn, sendOut, parseIn, parseOut,
          resolveIn, resolveOut>>
\* the arguments and results of the functions that are run on their own
callVars == <<sendIn, sendOut, parseIn, parseOut, resolveIn, resolveOut>>
pureVars == <<world, Logger, cfgLogger, callVars>>

Cycles == 1..MaxCycles

\* ---------------------------------------------------- Address Resolver
\* resolveLoop with the second branch reading "else if useIPv6": every
\* address the first branch passed over is taken as IPv6.
RECURSIVE resolveLoopAnyAsIPv6(_, _, _, _, _)
resolveLoopAnyAsIPv6(ips, i, validIPs, useIPv4, useIPv6) ==
  IF i > Len(ips) THEN validIPs
  ELSE IF (useIPv4 /\ To4(ips[i])) \/ useIPv6
         THEN resolveLoopAnyAsIPv6(ips, i + 1, Append(validIPs, IPString(ips[i])),
                                   useIPv4, useIPv6)
       ELSE resolveLoopAnyAsIPv6(ips, i + 1, validIPs, useIPv4, useIPv6)

\* The filter loop of resolveIP over the resolver's answer: ips[i..] is
\* still to be visited, validIPs has been appended so far.
RECURSIVE resolveLoop(_, _, _, _, _)
resolveLoop(ips, i, validIPs, useIPv4, useIPv6) ==
  IF i > Len(ips) THEN validIPs
  ELSE IF useIPv4 /\ To4(ips[i])
         THEN resolveLoop(ips, i + 1, Append(validIPs, IPString(ips[i])),
                          useIPv4, useIPv6)
       ELSE IF useIPv6 /\ ~To4(ips[i])
         THEN resolveLoop(ips, i + 1, Append(validIPs, IPString(ips[i])),
                          useIPv4, useIPv6)
       ELSE resolveLoop(ips, i + 1, validIPs, useIPv4, useIPv6)

\* resolveIP with the loop that takes every address as IPv6.
resolveIPAnyAsIPv6(ips, useIPv4, useIPv6) ==
  resolveLoopAnyAsIPv6(ips, 1, <<>>, useIPv4, useIPv6)

\* resolveIP(host, useIPv4, useIPv6) once net.LookupIP has answered ips.
resolveIP(ips, useIPv4, useIPv6) == resolveLoop(ips, 1, <<>>, useIPv4, useIPv6)

\* ------------------------------------------------------ reporting cycle
\* A goroutine that has not been started.
IdleCycle ==
  [pc |-> "idle", attempt |-> 0, lastErr |-> NilErr,
   cands |-> <<>>, idx |-> 0, probeErr |-> NilErr, pingTime |-> 0,
   ret |-> NilErr, outcome |-> "none",
   \* what the cycle has done so far
   started |-> <<>>, sleeps |-> 0, lookups |-> 0, probes |-> <<>>,
   requests |-> 0, delivered |-> 0, okSends |-> 0,
   \* the sinks its log calls have reached
   sinks |-> {},
   \* the requests the running attempt has issued
   sent |-> <<>>,
   \* the running attempt: how net.LookupIP came back ("none" before it),
   \* and the local err of the iteration
   lookup |-> "none", err |-> NilErr,
   \* the durations its time.Sleep calls were given
   delays |-> {}]

\* A cycle that counts its attempts from 0.
NewCycleFromZero == [IdleCycle EXCEPT !.pc = "top", !.attempt = 0]

\* go func() { reportWithRetry(ctx, cfg) }(): attempt := 1, lastErr = nil.
NewCycle == [IdleCycle EXCEPT !.pc = "top", !.attempt = 1]

\* The process is running: when a command-line main returns or panics the
\* process ends and takes its goroutines with it; the library Daemon only
\* returns to its caller.
Alive == ~(entry \in {"cli0", "cli5"} /\ schedPc \in {"stopped", "panicked"})

\* Where a log call lands: the command-line copy calls the log package,
\* the library calls whatever the package variable Logger holds just then.
LogSink == IF Impl(entry) = "cli" THEN "stdlog" ELSE Logger

\* Logger(...) / log.Printf(...)
Log(r) == [r EXCEPT !.sinks = @ \cup {LogSink}]

\* The error branches of reportWithRetry: log, keep the error, go to sleep.
\* Only the command-line copy assigns lastErr; the library copy logs the
\* wrapped error and leaves lastErr untouched.
FailAttempt(r, stage, err) ==
  [Log(r) EXCEPT !.pc = "sleep", !.err = err,
            !.lastErr = IF Impl(entry) = "cli"
                          THEN WrapAttempt(stage, r.attempt, err)
                          ELSE @]

\* The loop condition one attempt too generous.
LoopCondOffByOne(attempt) == attempt <= cfg.MaxRetries + 1

\* for attempt := 1; attempt <= cfg.MaxRetries; attempt++
LoopCond(attempt) == attempt <= cfg.MaxRetries

\* The loop condition fails: the loop is left and lastErr is returned.
LoopExit(c) ==
  /\ Alive /\ cyc[c].pc = "top"
  /\ ~LoopCond(cyc[c].attempt)
  /\ LET r == [cyc[c] EXCEPT !.pc = "done", !.outcome = "exhausted",
                             !.ret = cyc[c].lastErr]
     IN \* the goroutine logs the error it got back, if any
        cyc' = [cyc EXCEPT ![c] = IF r.ret # NilErr THEN Log(r) ELSE r]
  /\ UNCHANGED <<entry, cfg, ctxDone, schedPc, tickPending, launched, pureVars>>

\* select { case <-ctx.Done(): return ctx.Err() ...
SelectDone(c) ==
  /\ Alive /\ cyc[c].pc = "top"
  /\ LoopCond(cyc[c].attempt)
  /\ ctxDone
  /\ cyc' = [cyc EXCEPT ![c] = Log([@ EXCEPT !.pc = "done",
                                             !.outcome = "cancelled",
                                             !.ret = CtxErr])]
  /\ UNCHANGED <<entry, cfg, ctxDone, schedPc, tickPending, launched, pureVars>>

\* An attempt that begins without looking at ctx.Done().
SelectDefaultUnchecked(c) ==
  /\ Alive /\ cyc[c].pc = "top"
  /\ LoopCond(cyc[c].attempt)
  /\ cyc' = [cyc EXCEPT ![c] = [@ EXCEPT !.pc = "resolve",
                                         !.started = Append(@, cyc[c].attempt)]]
  /\ UNCHANGED <<entry, cfg, ctxDone, schedPc, tickPending, launched, pureVars>>

\* ... default: the attempt begins with getPingTime(cfg).
SelectDefault(c) ==
  /\ Alive /\ cyc[c].pc = "top"
  /\ LoopCond(cyc[c].attempt)
  /\ ~ctxDone
  /\ cyc' = [cyc EXCEPT ![c] = [@ EXCEPT !.pc = "resolve",
                                         !.started = Append(@, cyc[c].attempt)]]
  /\ UNCHANGED <<entry, cfg, ctxDone, schedPc, tickPending, launched, pureVars>>

\* getPingTime up to its probe loop: resolveIP, the DNS error and the
\* empty list.
ResolveStep(c) ==
  /\ Alive /\ cyc[c].pc = "resolve"
  /\ \E a \in DNSPool(world) :
       \E validIPs \in {resolveIP(a.ips, cfg.UseIPv4, cfg.UseIPv6)} :
         LET r == [cyc[c] EXCEPT !.lookups = @ + 1,
                                 !.lookup = IF a.ok THEN "answered" ELSE "failed"]
         IN cyc' = [cyc EXCEPT ![c] =
                      IF ~a.ok
                        THEN FailAttempt(r, "ping failed",
                                         Wrap("DNS resolution failed", NewErr("lookup")))
                      ELSE IF Len(validIPs) = 0
                        THEN FailAttempt(r, "ping failed",
                                         NewErr("no valid IP addresses found"))
                      ELSE [r EXCEPT !.pc = "probe", !.cands = validIPs,
                                     !.idx = 1, !.probeErr = NilErr]]
  /\ UNCHANGED <<entry, cfg, ctxDone, schedPc, tickPending, launched, pureVars>>

\* What getPingTime returns when every candidate failed: the command-line
\* copy wraps the last probe error, the library copy returns it as it is.
AllFailedErr(lastErr) ==
  IF Impl(entry) = "cli" THEN Wrap("all ping attempts failed", lastErr)
  ELSE lastErr

\* A successful probe that does not return: the loop goes on to the
\* remaining candidates and the last success wins.
OnProbeSuccessContinue(p, rtt) ==
  IF p.idx < Len(p.cands)
    THEN [p EXCEPT !.idx = @ + 1, !.pingTime = rtt]
    ELSE [p EXCEPT !.pc = "send", !.pingTime = rtt]

\* if err == nil { return pingTime, nil }: getPingTime returns and
\* reportWithRetry goes on to sendReport with that value.
OnProbeSuccess(p, rtt) == [p EXCEPT !.pc = "send", !.pingTime = rtt]

\* One iteration of getPingTime's loop over ips: probe candidate idx
\* (pingWithSystem or pingWithGoPing); success returns its time at once.
ProbeStep(c) ==
  /\ Alive /\ cyc[c].pc = "probe"
  /\ \E o \in ProbePool(world) :
       LET r == cyc[c]
           k == r.idx
           p == [r EXCEPT !.probes = Append(@, [ip |-> r.cands[k], ok |-> o.ok,
                                                rtt |-> o.rtt])]
           q == [p EXCEPT !.probeErr = ProbeErr(k)]
       IN cyc' = [cyc EXCEPT ![c] =
                    IF o.ok
                      THEN OnProbeSuccess(p, o.rtt)
                    ELSE IF k < Len(r.cands)
                      THEN Log([q EXCEPT !.idx = k + 1])
                    ELSE FailAttempt(q, "ping failed", AllFailedErr(q.probeErr))]
  /\ UNCHANGED <<entry, cfg, ctxDone, schedPc, tickPending, launched, pureVars>>

\* ---------------------------------------------------------- sendReport
\* url.Parse on the addresses of the model: the part before "?" and the
\* query the configured address came with.
ParseURL(u) ==
  IF u = "http://kuma/push?x=1"
    THEN [Base |-> "http://kuma/push", RawQuery |-> <<<<"x", "1">>>>]
    ELSE [Base |-> u, RawQuery |-> <<>>]

\* url.QueryEscape on the status messages of the model.
QueryEscape(v) == IF v = "all good" THEN "all+good" ELSE v

DigitChars == <<"0", "1", "2", "3", "4", "5", "6", "7", "8", "9">>
Digit(d) == DigitChars[d + 1]

RECURSIVE Digits(_)
Digits(n) == IF n < 10 THEN <<Digit(n)>>
             ELSE Append(Digits(n \div 10), Digit(n % 10))

\* Two decimals by cutting the third off instead of rounding.
FormatPingTruncated(t) ==
  LET h == t \div 10
  IN Digits(h \div 100) \o <<".", Digit((h \div 10) % 10), Digit(h % 10)>>

\* fmt.Sprintf("%.2f", pingTime), pingTime given in thousandths of a
\* millisecond: rounded to the nearest hundredth, always two decimals.
FormatPing(t) ==
  LET h == (t + 5) \div 10
  IN Digits(h \div 100) \o <<".", Digit((h \div 10) % 10), Digit(h % 10)>>

\* params.Add three times, then params.Encode(): the keys in sorted order,
\* the values escaped (digits and the point need no escaping).
Encode(msg, pingTime) ==
  << <<"msg", QueryEscape(msg)>>,
     <<"ping", FormatPing(pingTime)>>,
     <<"status", "up">> >>

\* client.Get(reportUrl.String()): an address without scheme and host is
\* refused by the client before anything is sent.
ClientGet(reportUrl, o) ==
  IF reportUrl.Base = "" THEN [kind |-> "refused", status |-> 0]
  ELSE [kind |-> o.kind, status |-> o.status]

\* Any 2xx status counts as success.
StatusCheckAny2xx(status) ==
  IF status \div 100 # 2 THEN NewErr("unexpected status") ELSE NilErr

\* if resp.StatusCode != http.StatusOK { return "unexpected status" }
StatusCheck(status) ==
  IF status # StatusOK THEN NewErr("unexpected status") ELSE NilErr

NoResponse == [kind |-> "none", status |-> 0]

\* sendReport(cfg, pingTime) against an endpoint that answers o: the GETs it
\* issued, what came back, and its return value.
sendReport(url, msg, pingTime, o) ==
  IF ~URLParses(url)
    THEN [gets |-> <<>>, resp |-> NoResponse,
          err |-> Wrap("invalid URL", NewErr("parse"))]
    ELSE LET reportUrl == [ParseURL(url) EXCEPT
                             !.RawQuery = Encode(msg, pingTime)]
             out == ClientGet(reportUrl, o)
         IN [gets |-> <<reportUrl>>, resp |-> out,
             err |-> IF out.kind # "response"
                       THEN Wrap("HTTP request failed", NewErr(out.kind))
                       ELSE StatusCheck(out.status)]

\* ----------------------------------------------- parseSystemPingOutput
\* The output is a sequence of lines (strings.Split on "\n"), a line the
\* sequence of its fields (strings.Fields; the fields stand one blank
\* apart), a field a sequence of pieces: a numeral "0".."9", "/", "ms",
\* ",", "=", or a word.

\* strconv.ParseFloat(s, 64): a single numeral parses, nothing else does.
ParseFloat(t) ==
  IF Len(t) = 1 /\ \E d \in 0..9 : Digit(d) = t[1]
    THEN [ok |-> TRUE, val |-> CHOOSE d \in 0..9 : Digit(d) = t[1]]
    ELSE [ok |-> FALSE, val |-> 0]

\* strings.Split(part, "/")
RECURSIVE SplitSlash(_)
SplitSlash(t) ==
  IF \A j \in 1..Len(t) : t[j] # "/" THEN <<t>>
  ELSE LET k == CHOOSE j \in 1..Len(t) :
                  t[j] = "/" /\ \A h \in 1..(j - 1) : t[h] # "/"
       IN <<SubSeq(t, 1, k - 1)>> \o SplitSlash(SubSeq(t, k + 1, Len(t)))

\* strings.TrimSuffix(s, "ms")
TrimSuffixMs(t) ==
  IF Len(t) >= 1 /\ t[Len(t)] = "ms" THEN SubSeq(t, 1, Len(t) - 1) ELSE t

\* strings.Contains(line, w) for a word w that has no blank in it
ContainsWord(line, w) ==
  \E i \in 1..Len(line) : \E j \in 1..Len(line[i]) : line[i][j] = w

\* strings.Contains(line, "Average =")
ContainsAverageEq(line) ==
  \E i \in 1..(Len(line) - 1) :
    /\ line[i][Len(line[i])] = "Average"
    /\ line[i + 1][1] = "="

NoValue == [ok |-> FALSE, val |-> 0]

\* for _, part := range parts: the first field with a "/", at least four
\* parts and a second part that parses.
RECURSIVE RttValue(_, _)
RttValue(parts, k) ==
  IF k > Len(parts) THEN NoValue
  ELSE LET stats == SplitSlash(parts[k])
           avg == ParseFloat(stats[2])
       IN IF Len(stats) >= 4 /\ avg.ok
            THEN avg
            ELSE RttValue(parts, k + 1)

\* for i, part := range parts: the first "Average" with a field two places
\* on that parses once its "ms" is cut off.
RECURSIVE AverageValue(_, _)
AverageValue(parts, k) ==
  IF k > Len(parts) THEN NoValue
  ELSE IF parts[k] = <<"Average">> /\ k + 2 <= Len(parts)
            /\ ParseFloat(TrimSuffixMs(parts[k + 2])).ok
         THEN ParseFloat(TrimSuffixMs(parts[k + 2]))
         ELSE AverageValue(parts, k + 1)

\* One turn of the loop over the lines.
ParseLine(line) ==
  LET rtt == IF ContainsWord(line, "round-trip") \/ ContainsWord(line, "rtt")
               THEN RttValue(line, 1) ELSE NoValue
  IN IF rtt.ok THEN rtt
     ELSE IF ContainsAverageEq(line) THEN AverageValue(line, 1)
     ELSE NoValue

\* The lines taken first to last.
ScanOrderForward(n) == [k \in 1..n |-> k]

\* for i := len(lines) - 1; i >= 0; i--
ScanOrder(n) == [k \in 1..n |-> n + 1 - k]

RECURSIVE ScanLines(_, _, _)
ScanLines(lines, order, k) ==
  IF k > Len(order) THEN NoValue
  ELSE IF ParseLine(lines[order[k]]).ok THEN ParseLine(lines[order[k]])
  ELSE ScanLines(lines, order, k + 1)

\* parseSystemPingOutput(output): ok = FALSE stands for the error
\* "could not parse ping output".
parseSystemPingOutput(lines) == ScanLines(lines, ScanOrder(Len(lines)), 1)

\* The latency of the first probe of the attempt, whatever came of it.
PingArgFirstProbe(r) == r.probes[1].rtt * 1000

\* sendReport(cfg, pingTime): the local pingTime of this iteration, which
\* the model keeps in milliseconds.
PingArg(r) == r.pingTime * 1000

\* A successful send that falls through to the retry delay.
OnSendSuccessNoReturn(q) == [q EXCEPT !.pc = "sleep", !.okSends = @ + 1]

\* A successful send that returns whatever error the cycle last kept.
OnSendSuccessStaleErr(q) ==
  [Log(q) EXCEPT !.pc = "done", !.outcome = "succeeded", !.ret = q.lastErr,
                 !.okSends = @ + 1]

\* sendReport returned nil: log "Report successful!" and return nil.
OnSendSuccess(q) ==
  [Log(q) EXCEPT !.pc = "done", !.outcome = "succeeded", !.ret = NilErr,
                 !.okSends = @ + 1]

\* sendReport(cfg, pingTime): url.Parse, one client.Get, the status check;
\* then the success or error branch of reportWithRetry.
SendStep(c) ==
  /\ Alive /\ cyc[c].pc = "send"
  /\ \E o \in HTTPPool(world) :
       \E res \in {sendReport(cfg.ReportURL, "OK", PingArg(cyc[c]), o)} :
         LET q == [cyc[c] EXCEPT
                     !.requests = @ + Len(res.gets),
                     !.sent = res.gets,
                     !.delivered = IF res.resp.kind \in {"none", "refused"}
                                     THEN @ ELSE @ + 1]
         IN cyc' = [cyc EXCEPT ![c] =
                      IF res.err # NilErr
                        THEN FailAttempt(q, "report failed", res.err)
                        ELSE OnSendSuccess(q)]
  /\ UNCHANGED <<entry, cfg, ctxDone, schedPc, tickPending, launched, pureVars>>

\* cfg.RetryDelay in seconds (retry_delay_seconds, by default)
RetryDelay == 5

\* A delay that grows with the attempt.
SleepArgBackoff(r) == RetryDelay * r.attempt

\* the argument of time.Sleep in both error branches
SleepArg(r) == RetryDelay

\* A retry that does not count: the loop is entered again with the same
\* attempt number.
SleepStepNoAdvance(c) ==
  /\ Alive /\ cyc[c].pc = "sleep"
  /\ cyc' = [cyc EXCEPT ![c] = [@ EXCEPT !.pc = "top",
                                         !.sleeps = @ + 1,
                                         !.delays = @ \cup {SleepArg(cyc[c])},
                                         !.cands = <<>>, !.idx = 0,
                                         !.probeErr = NilErr, !.pingTime = 0,
                                         !.probes = <<>>, !.sent = <<>>,
                                         !.lookup = "none", !.err = NilErr]]
  /\ UNCHANGED <<entry, cfg, ctxDone, schedPc, tickPending, launched, pureVars>>

\* time.Sleep(cfg.RetryDelay) returns; continue: attempt++ and back to the
\* loop condition.  The locals of the finished iteration are gone.
SleepStep(c) ==
  /\ Alive /\ cyc[c].pc = "sleep"
  /\ cyc' = [cyc EXCEPT ![c] = [@ EXCEPT !.pc = "top", !.attempt = @ + 1,
                                         !.sleeps = @ + 1,
                                         !.delays = @ \cup {SleepArg(cyc[c])},
                                         !.cands = <<>>, !.idx = 0,
                                         !.probeErr = NilErr, !.pingTime = 0,
                                         !.probes = <<>>, !.sent = <<>>,
                                         !.lookup = "none", !.err = NilErr]]
  /\ UNCHANGED <<entry, cfg, ctxDone, schedPc, tickPending, launched, pureVars>>

\* ------------------------------------------------------------ Scheduler
\* The command-line mains test cfg.ReportURL == "" and panic; Daemon does
\* not look at the URL.
MainChecksURL == entry \in {"cli0", "cli5"}

\* Logger = DefaultLogger; if cfg.Logger != nil { Logger = cfg.Logger }
\* (the command-line daemon of part_000 has no such variable).
DaemonLogger ==
  IF entry = "cli0" THEN Logger
  ELSE IF cfgLogger = "nil" THEN "default" ELSE cfgLogger

\* main up to the dispatch loop (and Daemon's prologue): the configuration
\* check, then the first reporting cycle as a goroutine, then the ticker
\* (cfg.ReportPeriod is taken to be positive, as time.NewTicker requires).
Startup ==
  /\ schedPc = "start"
  /\ IF MainChecksURL /\ cfg.ReportURL = ""
       THEN /\ schedPc' = "panicked"
            /\ UNCHANGED <<launched, cyc, Logger>>
       ELSE /\ schedPc' = "loop"
            /\ launched' = 1
            /\ cyc' = [cyc EXCEPT ![1] = NewCycle]
            /\ Logger' = DaemonLogger
  /\ UNCHANGED <<entry, cfg, ctxDone, tickPending, world, cfgLogger,
                 callVars>>

\* Another Daemon(ctx, cfg2) is called in the same process (a library user
\* reporting to a second endpoint): its prologue assigns the package
\* variable, first DefaultLogger and then its own cfg2.Logger if it has one.
OtherDaemon ==
  /\ entry = "lib"
  /\ schedPc # "start"
  /\ Logger' \in {"default", "sinkB"}
  /\ UNCHANGED <<entry, cfg, ctxDone, schedPc, tickPending, launched, cyc,
                 world, cfgLogger, callVars>>

\* A signal that a second request takes back.
CancelResets ==
  /\ IF entry = "lib" THEN schedPc \in {"start", "loop"} ELSE schedPc = "loop"
  /\ ctxDone' = ~ctxDone
  /\ UNCHANGED <<entry, cfg, schedPc, tickPending, launched, cyc, pureVars>>

\* The shutdown request: cancel() after SIGINT/SIGTERM in the mains, the
\* caller's own cancellation of ctx for the library (possibly before Daemon
\* is called).
Cancel ==
  /\ ~ctxDone
  /\ IF entry = "lib" THEN schedPc \in {"start", "loop"} ELSE schedPc = "loop"
  /\ ctxDone' = TRUE
  /\ UNCHANGED <<entry, cfg, schedPc, tickPending, launched, cyc, pureVars>>

\* The ticker fires: one tick is buffered in ticker.C (a tick that finds
\* the buffer full is dropped).
Tick ==
  /\ schedPc = "loop"
  /\ ~tickPending
  /\ launched < MaxCycles
  /\ tickPending' = TRUE
  /\ UNCHANGED <<entry, cfg, ctxDone, schedPc, launched, cyc, pureVars>>

\* A dispatch loop that calls reportWithRetry itself: the next tick is
\* taken only when no cycle is running.
DispatchTickAwaits ==
  /\ schedPc = "loop"
  /\ tickPending
  /\ \A c \in Cycles : cyc[c].pc \in {"idle", "done"}
  /\ tickPending' = FALSE
  /\ launched' = launched + 1
  /\ cyc' = [cyc EXCEPT ![launched + 1] = NewCycle]
  /\ UNCHANGED <<entry, cfg, ctxDone, schedPc, pureVars>>

\* select { case <-ticker.C: go func(c) { reportWithRetry(ctx, c) }(cfg)
DispatchTick ==
  /\ schedPc = "loop"
  /\ tickPending
  /\ tickPending' = FALSE
  /\ launched' = launched + 1
  /\ cyc' = [cyc EXCEPT ![launched + 1] = NewCycle]
  /\ UNCHANGED <<entry, cfg, ctxDone, schedPc, pureVars>>

\* A dispatch loop that joins its cycles before it returns.
DispatchDoneJoins ==
  /\ schedPc = "loop"
  /\ ctxDone
  /\ \A c \in Cycles : cyc[c].pc \in {"idle", "done"}
  /\ schedPc' = "stopped"
  /\ UNCHANGED <<entry, cfg, ctxDone, tickPending, launched, cyc, pureVars>>

\* ... case <-ctx.Done(): return }.  When a tick is buffered as well, the
\* select statement picks either ready case.
DispatchDone ==
  /\ schedPc = "loop"
  /\ ctxDone
  /\ schedPc' = "stopped"
  /\ UNCHANGED <<entry, cfg, ctxDone, tickPending, launched, cyc, pureVars>>

\* ------------------------------------------------------- specifications
NoResolve == [ips |-> <<>>, useIPv4 |-> FALSE, useIPv6 |-> FALSE]
NoResult == [done |-> FALSE, validIPs |-> <<>>]
NoParse == [done |-> FALSE, ok |-> FALSE, avg |-> 0]
NoSend == [url |-> "", msg |-> "", pingTime |-> 0,
           http |-> [kind |-> "refused", status |-> 0, body |-> ""]]
NoSent == [done |-> FALSE, gets |-> <<>>, resp |-> NoResponse, err |-> NilErr]

\* Before main (or Daemon) runs.
Boot ==
  /\ entry \in Entries
  /\ ctxDone = FALSE
  /\ schedPc = "start"
  /\ tickPending = FALSE
  /\ launched = 0
  /\ cyc = [c \in Cycles |-> IdleCycle]
  /\ Logger = "unset"
  /\ resolveIn = NoResolve
  /\ resolveOut = NoResult
  /\ sendIn = NoSend
  /\ sendOut = NoSent
  /\ parseIn = <<>>
  /\ parseOut = NoParse

\* The Scheduler with its overlapping cycles, under the default address
\* families (use_ipv4 = true, use_ipv6 = false) in a steady network.
SchedConfigs == {k \in Configs : k.UseIPv4 /\ ~k.UseIPv6}

Init ==
  /\ Boot
  /\ cfg \in SchedConfigs
  /\ cfgLogger = "nil"
  /\ world \in SteadyWorlds

\* One run of the first reporting cycle, any configuration, any network.
InitCycle ==
  /\ Boot
  /\ cfg \in Configs
  /\ cfgLogger = "nil"
  /\ world = "any"

CycleStep(c) ==
  \/ LoopExit(c)
  \/ SelectDone(c)
  \/ SelectDefault(c)
  \/ ResolveStep(c)
  \/ ProbeStep(c)
  \/ SendStep(c)
  \/ SleepStep(c)

Next ==
  \/ Startup
  \/ Cancel
  \/ Tick
  \/ DispatchTick
  \/ DispatchDone
  \/ \E c \in Cycles : CycleStep(c)

Spec == Init /\ [][Next]_vars

\* The dispatch loop is a goroutine the runtime keeps scheduling, and a
\* select whose ctx.Done() case stays ready takes it sooner or later, other
\* ready cases or not.  Nothing is asked of the cycles, the ticker or the
\* caller.
SpecFair == Spec /\ WF_vars(DispatchDone)

\* The ticker never fires: only the cycle started at startup runs.
NextCycle ==
  \/ Startup
  \/ Cancel
  \/ DispatchDone
  \/ \E c \in Cycles : CycleStep(c)

SpecCycle == InitCycle /\ [][NextCycle]_vars

\* The calls a cycle makes all return (lookup, probe, HTTP request, sleep)
\* and its goroutine is scheduled as long as the process lives.  Nothing
\* is asked of the dispatch loop or of the caller.
InitCycleFair ==
  /\ Boot
  /\ cfg \in SchedConfigs
  /\ cfgLogger = "nil"
  /\ world = "any"

SpecCycleFair ==
  /\ InitCycleFair
  /\ [][NextCycle]_vars
  /\ WF_vars(\E c \in Cycles : CycleStep(c))

\* A library user that runs Daemon, with or without a sink of its own,
\* and may call Daemon again for another endpoint.
InitLoggers ==
  /\ Boot
  /\ entry = "lib"
  /\ cfg \in SchedConfigs
  /\ cfgLogger \in {"nil", "sinkA"}
  /\ world \in SteadyWorlds

NextLoggers == Next \/ OtherDaemon

SpecLoggers == InitLoggers /\ [][NextLoggers]_vars

\* sendReport alone: every address, status message and latency of the
\* model against every reply of the endpoint.
SendURLs == ReportURLs \cup {"http://kuma/push?x=1"}
StatusMessages == {"OK", "all good", ""}
\* thousandths of a millisecond; none ends in 5, where the rounding of a
\* binary fraction is decided by bits a decimal cannot show
PingTimes == {0, 4, 6, 994, 996, 2344, 2346, 7000, 9996, 12000, 99996}
Bodies == {"", "OK", "error"}
HTTPReplies == [kind : {"refused", "timeout"}, status : {0}, body : {""}]
                 \cup [kind : {"response"}, status : HTTPStatuses, body : Bodies]

InitSend ==
  /\ entry \in {"cli0", "lib"}
  /\ cfg = [ReportURL |-> "http://kuma/push", MaxRetries |-> 0,
            UseIPv4 |-> TRUE, UseIPv6 |-> FALSE]
  /\ world = "any"
  /\ Logger = "unset"
  /\ cfgLogger = "nil"
  /\ ctxDone = FALSE
  /\ schedPc = "start"
  /\ tickPending = FALSE
  /\ launched = 0
  /\ cyc = [c \in Cycles |-> IdleCycle]
  /\ resolveIn = NoResolve
  /\ resolveOut = NoResult
  /\ parseIn = <<>>
  /\ parseOut = NoParse
  /\ sendIn \in [url : SendURLs, msg : StatusMessages, pingTime : PingTimes,
                 http : HTTPReplies]
  /\ sendOut = NoSent

SendCall ==
  /\ ~sendOut.done
  /\ LET res == sendReport(sendIn.url, sendIn.msg, sendIn.pingTime,
                           sendIn.http)
     IN sendOut' = [done |-> TRUE, gets |-> res.gets, resp |-> res.resp,
                    err |-> res.err]
  /\ UNCHANGED <<entry, cfg, ctxDone, schedPc, tickPending, launched, cyc,
                 world, Logger, cfgLogger, sendIn, resolveIn, resolveOut,
                 parseIn, parseOut>>

SpecSend == InitSend /\ [][SendCall]_vars

\* parseSystemPingOutput alone, on outputs put together from the lines the
\* ping commands print and from lines that only look like them.
MaxLines == 3

SummaryLinux ==
  << <<"rtt">>, <<"min", "/", "avg", "/", "max", "/", "mdev">>, <<"=">>,
     <<"1", "/", "2", "/", "3", "/", "4">>, <<"ms">> >>
SummaryDarwin ==
  << <<"round-trip">>, <<"min", "/", "avg", "/", "max", "/", "stddev">>, <<"=">>,
     <<"5", "/", "6", "/", "7", "/", "8">>, <<"ms">> >>
SummaryWindows ==
  << <<"Minimum">>, <<"=">>, <<"1", "ms", ",">>, <<"Maximum">>, <<"=">>,
     <<"5", "ms", ",">>, <<"Average">>, <<"=">>, <<"3", "ms">> >>
AverageNine == << <<"Average">>, <<"=">>, <<"9", "ms">> >>
ReplyLine == << <<"64">>, <<"bytes">>, <<"time", "=", "1">>, <<"ms">> >>
\* the statistics header for a host whose name has "rtt" in it
HeaderLine == << <<"---">>, <<"rtt", ".", "lan">>, <<"ping">>, <<"statistics">> >>
\* three parts only
SummaryShort ==
  << <<"rtt">>, <<"min", "/", "avg", "/", "max">>, <<"=">>,
     <<"1", "/", "2", "/", "3">>, <<"ms">> >>
\* four parts, none a number
SummaryWords == << <<"rtt">>, <<"min", "/", "avg", "/", "max", "/", "mdev">> >>
\* no marker on the line
SlashesOnly == << <<"1", "/", "2", "/", "3", "/", "4">> >>
\* the value is followed by a comma
AverageComma == << <<"Average">>, <<"=">>, <<"3", "ms", ",">>, <<"x">> >>
\* nothing after the "="
AverageCut == << <<"Average">>, <<"=">> >>
BlankLine == <<>>

PingLines == {SummaryLinux, SummaryDarwin, SummaryWindows, AverageNine,
              ReplyLine, HeaderLine, SummaryShort, SummaryWords, SlashesOnly,
              AverageComma, AverageCut, BlankLine}

PingOutputs == SeqsUpTo(PingLines, MaxLines) \ {<<>>}

InitParse ==
  /\ entry \in {"cli0", "lib"}
  /\ cfg = [ReportURL |-> "http://kuma/push", MaxRetries |-> 0,
            UseIPv4 |-> TRUE, UseIPv6 |-> FALSE]
  /\ world = "any"
  /\ Logger = "unset"
  /\ cfgLogger = "nil"
  /\ ctxDone = FALSE
  /\ schedPc = "start"
  /\ tickPending = FALSE
  /\ launched = 0
  /\ cyc = [c \in Cycles |-> IdleCycle]
  /\ resolveIn = NoResolve
  /\ resolveOut = NoResult
  /\ sendIn = NoSend
  /\ sendOut = NoSent
  /\ parseIn \in PingOutputs
  /\ parseOut = NoParse

ParseCall ==
  /\ ~parseOut.done
  /\ LET res == parseSystemPingOutput(parseIn)
     IN parseOut' = [done |-> TRUE, ok |-> res.ok, avg |-> res.val]
  /\ UNCHANGED <<entry, cfg, ctxDone, schedPc, tickPending, launched, cyc,
                 world, Logger, cfgLogger, sendIn, sendOut, resolveIn,
                 resolveOut, parseIn>>

SpecParse == InitParse /\ [][ParseCall]_vars

\* resolveIP alone, on every resolver answer and every pair of flags.
InitResolve ==
  /\ entry = "lib"
  /\ cfg = [ReportURL |-> "http://kuma/push", MaxRetries |-> 0,
            UseIPv4 |-> TRUE, UseIPv6 |-> FALSE]
  /\ world = "any"
  /\ Logger = "unset"
  /\ cfgLogger = "nil"
  /\ ctxDone = FALSE
  /\ schedPc = "start"
  /\ tickPending = FALSE
  /\ launched = 0
  /\ cyc = [c \in Cycles |-> IdleCycle]
  /\ resolveIn \in [ips : LookupAnswers, useIPv4 : BOOLEAN, useIPv6 : BOOLEAN]
  /\ resolveOut = NoResult
  /\ sendIn = NoSend
  /\ sendOut = NoSent
  /\ parseIn = <<>>
  /\ parseOut = NoParse

ResolveCall ==
  /\ ~resolveOut.done
  /\ resolveOut' = [done |-> TRUE,
                    validIPs |-> resolveIP(resolveIn.ips, resolveIn.useIPv4,
                                           resolveIn.useIPv6)]
  /\ UNCHANGED <<entry, cfg, ctxDone, schedPc, tickPending, launched, cyc,
                 world, Logger, cfgLogger, resolveIn, sendIn, sendOut,
                 parseIn, parseOut>>

SpecResolve == InitResolve /\ [][ResolveCall]_vars

\* =========================================================== properties
\* A cycle whose every attempt failed, with cancellation never set: the
\* loop was left by its condition.
Exhausted(c) == cyc[c].pc = "done" /\ cyc[c].outcome = "exhausted" /\ ~ctxDone

\* C1: for MaxRetries >= 1, a cycle whose attempts all fail (cancellation
\* never set) returns a non-nil error, the one built from the failure of
\* attempt number MaxRetries, in the command-line and in the library copy
\* of reportWithRetry.
C1_ExhaustionReturnsLastError ==
  \A c \in Cycles :
    (Exhausted(c) /\ cfg.MaxRetries >= 1)
      => (cyc[c].ret # NilErr /\ cyc[c].ret.attempt = cfg.MaxRetries)

\* C2: a fully failing cycle with MaxRetries = N sleeps between consecutive
\* attempts only, N-1 times, and not after attempt N.
C2_NoSleepAfterLastAttempt ==
  \A c \in Cycles :
    (Exhausted(c) /\ cfg.MaxRetries >= 1) => cyc[c].sleeps = cfg.MaxRetries - 1

\* C3: a cycle performs at most MaxRetries attempts, numbered 1, 2, ... in
\* order without gap or repetition, and exactly MaxRetries of them when it
\* ends with every attempt failed and cancellation never set.
C3_BoundedAttempts ==
  \A c \in Cycles :
    /\ Len(cyc[c].started) <= cfg.MaxRetries
    /\ \A i \in 1..Len(cyc[c].started) : cyc[c].started[i] = i
    /\ (cyc[c].pc = "done" /\ cyc[c].okSends = 0 /\ ~ctxDone)
         => Len(cyc[c].started) = cfg.MaxRetries

\* C3 witness: a cycle that used up MaxRetries = MaxRetriesBound attempts
\* with failures of both stages.
C3_Witness ==
  \E c \in Cycles :
    /\ Exhausted(c)
    /\ cfg.MaxRetries = MaxRetriesBound
    /\ Len(cyc[c].started) = MaxRetriesBound
    /\ cyc[c].requests >= 1
    /\ cyc[c].requests < cyc[c].lookups

\* What a cycle has done on the network and how long it has slept.
Effects(r) == <<r.started, r.lookups, r.probes, r.requests, r.delivered,
                r.okSends, r.sleeps>>

\* C4: a cycle that reaches the top of an attempt with the cancellation
\* signal set returns the cancellation error at once: no lookup, probe,
\* send or sleep for that attempt, and nothing at all afterwards.
C4_CancelAtBoundary ==
  [][\A c \in Cycles :
       /\ (cyc[c].pc = "top" /\ LoopCond(cyc[c].attempt) /\ ctxDone
             /\ cyc'[c] # cyc[c])
            => /\ cyc'[c].pc = "done"
               /\ cyc'[c].ret = CtxErr
               /\ Effects(cyc'[c]) = Effects(cyc[c])
       /\ cyc[c].pc = "done" => cyc'[c] = cyc[c]]_vars

\* C4 witness: a cycle cancelled at the top of its second attempt.
C4_Witness ==
  \E c \in Cycles :
    /\ cyc[c].pc = "done" /\ cyc[c].outcome = "cancelled"
    /\ cyc[c].ret = CtxErr
    /\ cyc[c].attempt = 2 /\ cyc[c].started = <<1>>

\* Some lookup, probe or HTTP request has been made.
NetworkActivity ==
  \E c \in Cycles :
    cyc[c].lookups > 0 \/ cyc[c].probes # <<>> \/ cyc[c].requests > 0

\* C5: on every path that starts the Scheduler (both mains and Daemon
\* called directly) an empty report URL raises the fatal configuration
\* error before any cycle is launched and before any network activity; a
\* non-empty URL raises no configuration error.
C5_EmptyURLIsFatal ==
  /\ (cfg.ReportURL = "" /\ schedPc # "start")
       => (schedPc = "panicked" /\ launched = 0 /\ ~NetworkActivity)
  /\ cfg.ReportURL # "" => schedPc # "panicked"

\* C6: once the cancellation signal is set, the dispatch loop launches no
\* new reporting cycle, a buffered tick notwithstanding.
C6_NoLaunchAfterCancel ==
  [][(ctxDone /\ schedPc = "loop") => launched' = launched]_vars

\* C7: getPingTime probes the candidates in resolved order, each at most
\* once, stops at the first success and returns that probe's latency; the
\* failures before it leave the value untouched.
C7_FirstSuccess ==
  \A c \in Cycles :
    LET r == cyc[c]
        n == Len(r.probes)
    IN /\ n <= Len(r.cands)
       /\ \A i \in 1..n : r.probes[i].ip = r.cands[i]
       /\ \A i \in 1..(n - 1) : ~r.probes[i].ok
       /\ (n > 0 /\ r.probes[n].ok)
            => /\ r.pc \in {"send", "sleep", "done"}
               /\ r.pingTime = r.probes[n].rtt
       /\ r.pc = "send" => (n > 0 /\ r.probes[n].ok)

\* C7 witness: the first candidate failed, the second answered in 12 ms
\* and 12 is what goes on to sendReport.
C7_Witness ==
  \E c \in Cycles :
    /\ cyc[c].pc = "send"
    /\ Len(cyc[c].probes) = 2
    /\ ~cyc[c].probes[1].ok
    /\ cyc[c].probes[2].ok
    /\ cyc[c].pingTime = 12

\* The address families, by the form of the address.
IPv4Forms == {"b4", "b16mapped"}
IPv6Forms == {"b16"}
IsIPv4(ip) == ip.form \in IPv4Forms
IsIPv6(ip) == ip.form \in IPv6Forms

\* The literals of the addresses of ips whose form is in forms, in ips'
\* order, one for each occurrence.
RECURSIVE Kept(_, _)
Kept(ips, forms) ==
  IF ips = <<>> THEN <<>>
  ELSE (IF Head(ips).form \in forms THEN <<IPString(Head(ips))>> ELSE <<>>)
         \o Kept(Tail(ips), forms)

\* C8: resolveIP returns exactly the IPv4 addresses for (true, false),
\* exactly the IPv6 addresses for (false, true), all addresses for
\* (true, true) and nothing for (false, false), always in the resolver's
\* order and with duplicates kept.
C8_AddressFiltering ==
  resolveOut.done =>
    LET ips == resolveIn.ips
        out == resolveOut.validIPs
    IN /\ (resolveIn.useIPv4 /\ ~resolveIn.useIPv6) => out = Kept(ips, IPv4Forms)
       /\ (~resolveIn.useIPv4 /\ resolveIn.useIPv6) => out = Kept(ips, IPv6Forms)
       /\ (resolveIn.useIPv4 /\ resolveIn.useIPv6) => out = Kept(ips, IPForms)
       /\ (~resolveIn.useIPv4 /\ ~resolveIn.useIPv6) => out = <<>>

\* C8 witness: an answer of both families is cut down to its IPv6 part.
C8_Witness ==
  /\ resolveOut.done
  /\ ~resolveIn.useIPv4 /\ resolveIn.useIPv6
  /\ Len(resolveIn.ips) = 2
  /\ IsIPv4(resolveIn.ips[1]) /\ IsIPv6(resolveIn.ips[2])
  /\ Len(resolveOut.validIPs) = 1

\* C9 as stated: a cycle that exhausts its retries has sent no report to
\* the endpoint.
C9_ExhaustedSentNothing ==
  \A c \in Cycles :
    (cyc[c].pc = "done" /\ cyc[c].outcome = "exhausted")
      => (cyc[c].requests = 0 /\ cyc[c].delivered = 0)

\* C9 amended: a cycle that exhausts its retries has had no report accepted
\* (no request answered with status 200); its failed sends may have put
\* requests on the wire.
C9_ExhaustedNothingAccepted ==
  \A c \in Cycles :
    (cyc[c].pc = "done" /\ cyc[c].outcome = "exhausted") => cyc[c].okSends = 0

\* C9 witness: an exhausted cycle that mixed a measurement failure with a
\* send failure that reached the endpoint.
C9_Witness ==
  \E c \in Cycles :
    /\ cyc[c].pc = "done" /\ cyc[c].outcome = "exhausted"
    /\ cyc[c].delivered >= 1
    /\ cyc[c].requests < cyc[c].lookups

\* A cycle is in flight: started and not yet returned.
InFlight(c) == cyc[c].pc \notin {"idle", "done"}

\* C10: the first cycle is launched at startup, and whatever the cycles in
\* flight are blocked in, the dispatch loop can take a buffered tick (and
\* launch the next cycle) and can take the cancellation signal.
C10_DispatchNeverBlocked ==
  /\ schedPc = "loop" => launched >= 1
  /\ (schedPc = "loop" /\ tickPending) => ENABLED DispatchTick
  /\ (schedPc = "loop" /\ ctxDone) => ENABLED DispatchDone

\* C10 witness: two reporting cycles in flight at once, the first still
\* sleeping off a failed attempt when the second was launched on a tick.
C10_Witness ==
  /\ schedPc = "loop"
  /\ launched >= 2
  /\ cyc[1].pc = "sleep"
  /\ \E d \in Cycles : d # 1 /\ InFlight(d)

\* The sink of the configuration the cycles of this Daemon were started
\* with.
ConfiguredSink ==
  IF Impl(entry) = "cli" THEN "stdlog"
  ELSE IF cfgLogger = "nil" THEN "default" ELSE cfgLogger

\* C11: cycles share no mutable data but the configuration and the
\* cancellation signal; with several Daemons in one process every log call
\* of a cycle reaches the sink of the configuration the cycle was started
\* with.
C11_LogsReachOwnSink ==
  \A c \in Cycles : cyc[c].sinks \subseteq {ConfiguredSink}

\* The call reached the endpoint and the reply was a 200.
Completed200 ==
  /\ Len(sendOut.gets) = 1
  /\ sendOut.resp.kind = "response"
  /\ sendOut.resp.status = StatusOK

\* C12 as stated: one GET per call, whatever the configured address.
C12_ExactlyOneGet ==
  sendOut.done => /\ Len(sendOut.gets) = 1
                  /\ (sendOut.err = NilErr) = Completed200

\* C12: sendReport issues one GET per call when the configured address
\* parses and none when it does not (the call then fails with an
\* invalid-URL error); it succeeds exactly when the request completes
\* with status 200, every transport failure and every other status is an
\* error, and the body of the response plays no part.
C12_SendOutcome ==
  sendOut.done =>
    /\ Len(sendOut.gets) = IF URLParses(sendIn.url) THEN 1 ELSE 0
    /\ ~URLParses(sendIn.url) => sendOut.err.msg[1] = "invalid URL"
    /\ (sendOut.err = NilErr) = Completed200
    /\ sendIn.url \notin {"", ":bad"} =>
         (sendOut.err = NilErr) = (/\ sendIn.http.kind = "response"
                                   /\ sendIn.http.status = StatusOK)

C12_Witness ==
  /\ sendOut.done
  /\ sendOut.err = NilErr
  /\ sendIn.http.body = "error"

\* What the endpoint reads back from an escaped value.
QueryUnescape(v) == IF v = "all+good" THEN "all good" ELSE v

DigitValue(ch) == CHOOSE d \in 0..9 : Digit(d) = ch

RECURSIVE Number(_)
Number(ds) == IF ds = <<>> THEN 0
              ELSE 10 * Number(SubSeq(ds, 1, Len(ds) - 1)) + DigitValue(ds[Len(ds)])

IsDigits(ds) == \A i \in 1..Len(ds) : \E d \in 0..9 : ds[i] = Digit(d)

\* p reads as a decimal with exactly two digits after the point.
TwoDecimals(p) ==
  /\ Len(p) >= 4
  /\ p[Len(p) - 2] = "."
  /\ IsDigits(SubSeq(p, 1, Len(p) - 3))
  /\ IsDigits(SubSeq(p, Len(p) - 1, Len(p)))

\* The value of such a decimal, in hundredths.
Hundredths(p) ==
  100 * Number(SubSeq(p, 1, Len(p) - 3)) + Number(SubSeq(p, Len(p) - 1, Len(p)))

\* C13: every request sendReport issues carries exactly the parameters
\* status, msg and ping: status is "up", msg is the configured status
\* message, ping is the latency it was given, rounded to two decimals.
C13_ReportContent ==
  \A i \in 1..Len(sendOut.gets) :
    LET q == sendOut.gets[i].RawQuery IN
      /\ Len(q) = 3
      /\ {q[j][1] : j \in 1..Len(q)} = {"status", "msg", "ping"}
      /\ \A j \in 1..Len(q) :
           /\ q[j][1] = "status" => q[j][2] = "up"
           /\ q[j][1] = "msg" => QueryUnescape(q[j][2]) = sendIn.msg
           /\ q[j][1] = "ping" =>
                /\ TwoDecimals(q[j][2])
                /\ 10 * Hundredths(q[j][2]) - sendIn.pingTime \in -5..5

C13_Witness ==
  /\ sendOut.done
  /\ Len(sendOut.gets) = 1
  /\ sendIn.url = "http://kuma/push?x=1"
  /\ sendIn.msg = "all good"
  /\ sendIn.pingTime = 9996
  /\ sendOut.gets[1].RawQuery[2][2] = <<"1", "0", ".", "0", "0">>

\* The averages a line offers under the slash-delimited summary format.
SummaryValues(line) ==
  IF ContainsWord(line, "round-trip") \/ ContainsWord(line, "rtt")
    THEN {ParseFloat(SplitSlash(line[k])[2]).val :
            k \in {h \in 1..Len(line) :
                     /\ Len(SplitSlash(line[h])) >= 4
                     /\ ParseFloat(SplitSlash(line[h])[2]).ok}}
    ELSE {}

\* The averages a line offers under the "Average = Zms" format.
AverageValues(line) ==
  IF ContainsAverageEq(line)
    THEN {ParseFloat(TrimSuffixMs(line[k + 2])).val :
            k \in {h \in 1..(Len(line) - 2) :
                     /\ line[h] = <<"Average">>
                     /\ ParseFloat(TrimSuffixMs(line[h + 2])).ok}}
    ELSE {}

Recognized(line) == SummaryValues(line) \cup AverageValues(line)

\* C14: the parser returns the average of the line closest to the end
\* that parses under one of the two formats, skips every other line, and
\* fails exactly when no line parses.
C14_LastMatchWins ==
  parseOut.done =>
    LET M == {i \in 1..Len(parseIn) : Recognized(parseIn[i]) # {}} IN
      IF M = {} THEN ~parseOut.ok
      ELSE /\ parseOut.ok
           /\ parseOut.avg \in
                Recognized(parseIn[CHOOSE i \in M : \A j \in M : j <= i])

C14_Witness ==
  /\ parseOut.done
  /\ parseIn = <<SummaryDarwin, SummaryWindows, AverageComma>>
  /\ parseOut.ok
  /\ parseOut.avg = 3

\* C15: the step in which a send succeeds is the step in which
\* reportWithRetry returns nil, in the same attempt and without another
\* sleep; after it the cycle does nothing more, so it has at most one
\* successful send.
C15_SuccessEndsCycle ==
  [][\A c \in Cycles :
       /\ cyc'[c].okSends > cyc[c].okSends =>
            /\ cyc'[c].pc = "done"
            /\ cyc'[c].outcome = "succeeded"
            /\ cyc'[c].ret = NilErr
            /\ cyc'[c].attempt = cyc[c].attempt
            /\ cyc'[c].sleeps = cyc[c].sleeps
            /\ cyc'[c].started = cyc[c].started
       /\ cyc[c].okSends >= 1 => cyc'[c] = cyc[c]]_vars

\* C15 witness: a cycle that succeeded in its second attempt, the first
\* having left an error behind.
C15_Witness ==
  \E c \in Cycles :
    /\ cyc[c].okSends = 1
    /\ cyc[c].started = <<1, 2>>
    /\ cyc[c].sleeps = 1
    /\ cyc[c].lastErr # NilErr

\* C16: within an attempt the lookup comes before any probe and a
\* successful probe before any request; a request is issued only after the
\* measurement of the same attempt succeeded, and the latency it carries
\* is that measurement.
C16_StageOrder ==
  [][\A c \in Cycles :
       LET r == cyc[c]
           n == Len(r.probes)
       IN \* the lookup opens the attempt
          /\ cyc'[c].lookups > r.lookups
               => (r.lookup = "none" /\ n = 0 /\ r.sent = <<>>)
          \* a probe follows the lookup of its attempt
          /\ Len(cyc'[c].probes) > n
               => (r.lookup = "answered" /\ r.lookups = Len(r.started))
          \* sendReport is reached by a successful probe and by nothing else
          /\ (cyc'[c].pc = "send" /\ r.pc # "send")
               => (Len(cyc'[c].probes) = n + 1 /\ cyc'[c].probes[n + 1].ok)
          \* a request follows the successful probe of its attempt and
          \* carries what that probe measured
          /\ cyc'[c].requests > r.requests
               => /\ r.pc = "send" /\ r.sent = <<>>
                  /\ n > 0 /\ r.probes[n].ok
                  /\ cyc'[c].probes = r.probes
                  /\ \A i \in 1..Len(cyc'[c].sent) :
                       \E j \in 1..Len(cyc'[c].sent[i].RawQuery) :
                         LET kv == cyc'[c].sent[i].RawQuery[j] IN
                           /\ kv[1] = "ping"
                           /\ TwoDecimals(kv[2])
                           /\ Hundredths(kv[2]) = 100 * r.probes[n].rtt]_vars

\* C16 witness: the second attempt of a cycle sent the 12 ms its second
\* candidate answered in, after a first attempt that had measured 7 ms.
C16_Witness ==
  \E c \in Cycles :
    /\ cyc[c].started = <<1, 2>>
    /\ cyc[c].sent # <<>>
    /\ Len(cyc[c].probes) = 2
    /\ cyc[c].probes[2].rtt = 12
    /\ cyc[c].requests = 2

\* err was made by fmt.Errorf("...: %w", cause).
Wraps(err, cause) ==
  /\ Len(err.msg) = Len(cause.msg) + 1
  /\ Tail(err.msg) = cause.msg
  /\ err.cand = cause.cand

\* C17: getPingTime probes nothing and returns an error that wraps the
\* lookup failure when the lookup fails, a "no addresses" error of its own
\* when the filtered list is empty, and an error that wraps the failure of
\* the last candidate when every probe fails; in both copies.
C17_MeasurementErrors ==
  \A c \in Cycles :
    LET r == cyc[c]
        n == Len(r.probes)
    IN /\ r.lookup = "failed"
            => (n = 0 /\ r.pc = "sleep" /\ Wraps(r.err, NewErr("lookup")))
       /\ (r.lookup = "answered" /\ r.cands = <<>>)
            => /\ n = 0 /\ r.pc = "sleep"
               /\ r.err = NewErr("no valid IP addresses found")
       /\ (r.pc = "sleep" /\ n > 0 /\ ~r.probes[n].ok)
            => (n = Len(r.cands) /\ Wraps(r.err, ProbeErr(n)))

\* C18: a stage that fails in attempt n is logged and leaves the cycle
\* asleep, nothing returned; the sleep is one time.Sleep of RetryDelay,
\* whatever the attempt, and ends in attempt n + 1.
C18_FailureRetries ==
  [][\A c \in Cycles :
       LET r == cyc[c]
           q == cyc'[c]
       IN \* a stage step that neither goes on to the next stage nor succeeds
          /\ (/\ r.pc \in {"resolve", "probe", "send"}
              /\ q # r
              /\ q.pc \notin {"probe", "send"}
              /\ q.okSends = r.okSends)
               => /\ q.pc = "sleep"
                  /\ LogSink \in q.sinks
                  /\ q.ret = r.ret /\ q.outcome = r.outcome
                  /\ q.attempt = r.attempt
                  /\ q.sleeps = r.sleeps
          /\ (r.pc = "sleep" /\ q # r)
               => /\ q.pc = "top"
                  /\ q.attempt = r.attempt + 1
                  /\ q.sleeps = r.sleeps + 1
                  /\ q.delays = {RetryDelay}
                  /\ q.ret = r.ret /\ q.outcome = r.outcome]_vars

\* C18 witness: a cycle about to start its third attempt, after a failed
\* measurement and a failed send.
C18_Witness ==
  \E c \in Cycles :
    /\ cyc[c].pc = "top"
    /\ cyc[c].attempt = 3
    /\ cyc[c].sleeps = 2
    /\ cyc[c].requests = 1
    /\ cyc[c].lookups = 2

\* C19: once cancellation is set the dispatch loop returns, sooner or
\* later, whatever the cycles in flight do and without waiting for them.
C19_LoopReturns == (ctxDone /\ schedPc = "loop") ~> (schedPc = "stopped")

\* C19 witness: the loop has returned on cancellation with two cycles still
\* in flight, one asleep and one that has not made a step yet.
C19_Witness ==
  /\ ctxDone
  /\ schedPc = "stopped"
  /\ \E c, d \in Cycles : /\ c # d
                          /\ cyc[c].pc = "sleep"
                          /\ cyc[d].pc = "top" /\ cyc[d].started = <<>>

\* C20: the cancellation signal, once set, stays set; from then on no
\* cycle, in flight or launched later, begins another attempt, while the
\* attempt a cycle is in may still take its lookup, probe, send and sleep.
C20_CancelIsFinal ==
  [][/\ ctxDone => ctxDone'
     /\ ctxDone => \A c \in Cycles : cyc'[c].started = cyc[c].started
     /\ \A c \in Cycles :
          (ctxDone /\ Alive /\ cyc[c].pc \in {"resolve", "probe", "send", "sleep"})
            => ENABLED CycleStep(c)]_vars

\* C20 witness: a cycle that slept through the cancellation and returned
\* at the next top of the loop, with attempts left.
C20_Witness ==
  \E c \in Cycles :
    /\ ctxDone
    /\ cyc[c].pc = "done" /\ cyc[c].outcome = "cancelled"
    /\ cyc[c].sleeps = 1
    /\ cyc[c].attempt <= cfg.MaxRetries

\* The cycle is inside an attempt: resolving, probing, sending or sleeping
\* its retry delay.
InAttempt(r) == r.pc \in {"resolve", "probe", "send", "sleep"}

\* C21: a cycle inside an attempt has its counter in 1..MaxRetries; a
\* cycle starts with its own counter at 1 and no error kept; and a step
\* that changes one cycle leaves the counter, the kept error and the
\* result of every other cycle as they were.
C21_AttemptCounter ==
  [][\A c \in Cycles :
       /\ InAttempt(cyc[c]) => cyc[c].attempt \in 1..cfg.MaxRetries
       /\ InAttempt(cyc'[c]) => cyc'[c].attempt \in 1..cfg.MaxRetries
       /\ (cyc[c].pc = "idle" /\ cyc'[c].pc # "idle")
            => (cyc'[c].attempt = 1 /\ cyc'[c].lastErr = NilErr)
       /\ cyc'[c] # cyc[c]
            => \A d \in Cycles \ {c} : cyc'[d] = cyc[d]]_vars

\* C21 witness: two cycles overlap, the first sleeping in its second
\* attempt while the second is in its first.
C21_Witness ==
  \E c, d \in Cycles :
    /\ c # d
    /\ cyc[c].pc = "sleep" /\ cyc[c].attempt = 2
    /\ InAttempt(cyc[d]) /\ cyc[d].attempt = 1

\* C22: reportWithRetry returns nil only for a cycle in which exactly one
\* send succeeded, whatever MaxRetries is and whatever the stages came
\* back with.
C22_NilMeansDelivered ==
  \A c \in Cycles :
    (cyc[c].pc = "done" /\ cyc[c].ret = NilErr) => cyc[c].okSends = 1

\* C23: a cycle in flight comes to its end (a state follows in which no
\* cycle is in flight) as long as the process lives,
\* as succeeded, exhausted or cancelled; it starts at most MaxRetries
\* attempts, each with at most one request and at most one probe per
\* candidate; and with cancellation set, a cycle at the top of its loop
\* returns with its next step.
C23_CycleTerminates ==
  /\ (\E c \in Cycles : InFlight(c))
       ~> ((\A c \in Cycles : ~InFlight(c)) \/ ~Alive)
  /\ [](\A c \in Cycles :
          /\ cyc[c].pc = "done"
               => cyc[c].outcome \in {"succeeded", "exhausted", "cancelled"}
          /\ cyc[c].outcome = "succeeded" <=> cyc[c].okSends = 1
          /\ cyc[c].outcome = "cancelled" => (ctxDone /\ cyc[c].ret = CtxErr)
          /\ cyc[c].started # <<>> => Len(cyc[c].started) <= cfg.MaxRetries
          /\ cyc[c].requests <= Len(cyc[c].started)
          /\ Len(cyc[c].sent) <= 1
          /\ Len(cyc[c].probes) <= Len(cyc[c].cands))
  /\ [][\A c \in Cycles :
          (ctxDone /\ cyc[c].pc = "top" /\ cyc'[c] # cyc[c])
            => cyc'[c].pc = "done"]_vars

\* C23 witness: a cycle cancelled after the request of its first attempt
\* failed has returned at the next top of the loop, one attempt unused.
C23_Witness ==
  \E c \in Cycles :
    /\ cyc[c].pc = "done" /\ cyc[c].outcome = "cancelled"
    /\ cyc[c].started = <<1>>
    /\ cyc[c].requests = 1
    /\ cyc[c].attempt = 2
    /\ cfg.MaxRetries = 2

====
